---- MODULE Spec2Model ----
(***************************************************************************)
(* A model of the Kundli generator: the Prokerala API client               *)
(* (kundli_services.py) and the form handler, normalisers and dasha        *)
(* helpers of app.py.                                                      *)
(*                                                                         *)
(* Text is modelled as a sequence of one-character strings, so that the    *)
(* regular expression of _force_jan1 is matched position by position.      *)
(* A value that Python leaves as None is a record or string "None" of the  *)
(* same shape as the values it stands beside.                              *)
(***************************************************************************)
EXTENDS Integers, Sequences, FiniteSets, TLC

VARIABLES
    cache,      \* _TOKEN_CACHE: access_token, expires_at
    now,        \* dt.datetime.utcnow(), in seconds
    pc,         \* position of the running endpoint operation
    ep,         \* which endpoint operation runs
    ts,         \* its birth_dt_local_with_offset_iso argument
    resp1,      \* resp    (the first response)
    resp2,      \* resp2   (the response of the sandbox-date retry)
    used_fallback, \* the local flag of the operation
    calls,      \* every outbound request made since the operation started
    result,     \* what the operation returned or raised
    iso_local,  \* _force_jan1: the argument of the first application
    jan_prev,   \* _force_jan1: the argument of the latest application
    jan_text,   \* _force_jan1: what the latest application returned
    jan_applied, \* _force_jan1: how often it was applied, each time to its own result
    periods,    \* _find_period_covering: its periods argument
    now_ts,     \* _find_period_covering: its now_ts argument
    found,      \* _find_period_covering: what it returned
    dasha_json, \* current_dasha_chain: the response handed in
    chain,      \* current_dasha_chain: what it returned
    resp_json,  \* flatten_*: the response handed in
    rows,       \* flatten_*: what it returned
    apc,        \* position of the script of app.py ("off": the script does not run)
    credentials, \* whether PROKERALA_CLIENT_ID and PROKERALA_CLIENT_SECRET are set
    pob,        \* the Place of Birth of the form
    locals,     \* address, svg, div_json, kundli_json, dasha_json and their flags
    exc,        \* the exception on its way to the except clause
    results,    \* st.session_state["results"]
    errors,     \* st.session_state["errors"]
    display,    \* what the render step has put on the page in this run
    submissions, \* how many times the form was submitted
    outcome     \* whether the latest submission raised

clientVars == <<cache, now, pc, ep, ts, resp1, resp2, used_fallback, calls, result>>
janVars == <<iso_local, jan_prev, jan_text, jan_applied>>
findVars == <<periods, now_ts, found, dasha_json, chain>>
flatVars == <<resp_json, rows>>

appVars == <<apc, credentials, pob, locals, exc, results, errors, display, submissions, outcome>>

vars == <<clientVars, janVars, findVars, flatVars, appVars>>

(***************************************************************************)
(* Text                                                                    *)
(***************************************************************************)
NL == "\n"

Digits == {"0", "1", "2", "3", "4", "5", "6", "7", "8", "9"}

\* \d{n} at positions from..from+n-1
DigitsAt(s, from, n) == \A i \in from..(from + n - 1) : s[i] \in Digits

\* Length of "YYYY-MM-DDTHH:MM:SS+HH:MM"
IsoLen == 25

\* re.match(r"(\d{4})-(\d{2})-(\d{2})T(\d{2}:\d{2}:\d{2})([+-]\d{2}:\d{2})$", s):
\* anchored at the start; "$" matches at the end of the text and also just
\* before a newline that ends the text.
Jan1PatternMatches(s) ==
    /\ \/ Len(s) = IsoLen
       \/ Len(s) = IsoLen + 1 /\ s[IsoLen + 1] = NL
    /\ DigitsAt(s, 1, 4) /\ s[5] = "-"
    /\ DigitsAt(s, 6, 2) /\ s[8] = "-"
    /\ DigitsAt(s, 9, 2) /\ s[11] = "T"
    /\ DigitsAt(s, 12, 2) /\ s[14] = ":"
    /\ DigitsAt(s, 15, 2) /\ s[17] = ":"
    /\ DigitsAt(s, 18, 2)
    /\ s[20] \in {"+", "-"}
    /\ DigitsAt(s, 21, 2) /\ s[23] = ":"
    /\ DigitsAt(s, 24, 2)

ForceJan1_KeepsDate(s) ==
    s

\* ProkeralaClient._force_jan1
ForceJan1(s) ==
    IF ~Jan1PatternMatches(s)
    THEN s
    ELSE LET year == SubSeq(s, 1, 4)
             hms  == SubSeq(s, 12, 19)
             off  == SubSeq(s, 20, 25)
         IN  year \o <<"-", "0", "1", "-", "0", "1", "T">> \o hms \o off

\* Building blocks of the timestamps the model feeds in
Chars2(a, b) == <<a, b>>
Year2001 == <<"2", "0", "0", "1">>
Year1987 == <<"1", "9", "8", "7">>
Hms060600 == <<"0", "6", ":", "0", "6", ":", "0", "0">>
Hms235959 == <<"2", "3", ":", "5", "9", ":", "5", "9">>
OffPlus0530 == <<"+", "0", "5", ":", "3", "0">>
OffMinus0800 == <<"-", "0", "8", ":", "0", "0">>
OffCompact == <<"+", "0", "5", "3", "0">>

Iso(year, mo, dd, hms, off) ==
    year \o <<"-">> \o mo \o <<"-">> \o dd \o <<"T">> \o hms \o off

\* local_birth_to_iso_with_offset(2001-12-29, 06:06, Asia/Kolkata): the form's defaults
DefaultBirthIso == Iso(Year2001, Chars2("1", "2"), Chars2("2", "9"), Hms060600, OffPlus0530)

(***************************************************************************)
(* Responses of the remote API                                             *)
(***************************************************************************)
\* Elements of an "errors" array: an object with code "1004", an object with
\* another code, and an element that is no object (e.get raises on it).
E1004 == [obj |-> TRUE, code |-> "1004"]
EOther == [obj |-> TRUE, code |-> "1001"]
ENonObj == [obj |-> FALSE, code |-> "None"]

MaxErrors == 2

RECURSIVE SeqsUpTo(_, _)
SeqsUpTo(S, n) ==
    IF n = 0 THEN {<<>>}
    ELSE LET shorter == SeqsUpTo(S, n - 1)
         IN  shorter \cup {Append(q, x) : q \in shorter, x \in S}

\* A body: text that is no JSON, a JSON value that is no object (an array),
\* or a JSON object whose "errors" key is absent, null or an array.
TextBody == [kind |-> "text", errs |-> "absent", items |-> <<>>]
ArrayBody == [kind |-> "array", errs |-> "absent", items |-> <<>>]
ObjectBody(errs, items) == [kind |-> "object", errs |-> errs, items |-> items]

\* resp.reason goes with the status
ReasonOf(status) ==
    CASE status = 200 -> "OK"
      [] status = 400 -> "Bad Request"
      [] status = 403 -> "Forbidden"
      [] status = 500 -> "Internal Server Error"
      [] OTHER -> "Unknown"

NoResp == [got |-> "none", status |-> 0, body |-> TextBody]
NetError == [got |-> "neterr", status |-> 0, body |-> TextBody]
Resp(status, body) == [got |-> "resp", status |-> status, body |-> body]
Responses ==
    LET Statuses == {200, 400, 403, 500}
        ErrorLists == SeqsUpTo({E1004, EOther, ENonObj}, MaxErrors)
        Bodies == {TextBody, ArrayBody, ObjectBody("absent", <<>>), ObjectBody("null", <<>>)}
                      \cup {ObjectBody("list", l) : l \in ErrorLists}
    IN  {Resp(s, b) : s \in Statuses, b \in Bodies}

\* requests.get returns a response or raises (timeout=30, connection failure).
\* While the whole script runs the remote API gives: a payload, an array where
\* an object is expected, the sandbox signature, a server error
GetOutcomesNow ==
    IF apc = "off" THEN Responses \cup {NetError}
    ELSE {Resp(200, ObjectBody("absent", <<>>)), Resp(200, ArrayBody),
          Resp(400, ObjectBody("list", <<E1004>>)), Resp(500, TextBody), NetError}

\* resp.json() raises on a body that is no JSON
JsonDecodes(body) == body.kind # "text"

(***************************************************************************)
(* Token cache                                                             *)
(***************************************************************************)
EmptyCache == [access_token |-> "None", has_expiry |-> FALSE, expires_at |-> 0]

TokenMargin == 60
DefaultExpiresIn == 3600

\* The outcome of the exchange: a failure before the cache is touched (a
\* network error, an error status, a body without access_token or with an
\* expires_in that int() refuses), or a reply; in_range tells whether
\* now + timedelta(seconds=expires_in - 60) is a date Python can hold.
TokenFailed == [ok |-> FALSE, access_token |-> "None", has_expires_in |-> FALSE, expires_in |-> 0, in_range |-> TRUE]
TokenReply(tok, has, n) == [ok |-> TRUE, access_token |-> tok, has_expires_in |-> has, expires_in |-> n, in_range |-> TRUE]
TokenReplies ==
    {TokenReply("tokA", FALSE, 0), TokenReply("tokA", TRUE, 60), TokenReply("tokB", TRUE, 120)}
\* A reply whose expires_in is beyond the dates of datetime (such as 10^12)
TokenReplyOutOfRange == [ok |-> TRUE, access_token |-> "tokA", has_expires_in |-> TRUE, expires_in |-> 0, in_range |-> FALSE]
TokenOutcomesNow ==
    IF apc = "off" THEN TokenReplies \cup {TokenFailed, TokenReplyOutOfRange}
    ELSE {TokenReply("tokA", FALSE, 0), TokenReply("tokA", TRUE, 60), TokenFailed}

CacheFresh_UntilExpiry(c, t) ==
    /\ c.access_token # "None" /\ c.access_token # ""
    /\ c.has_expiry
    /\ t <= c.expires_at

\* line 36: the cached token is used while now < expires_at
CacheFresh(c, t) ==
    /\ c.access_token # "None" /\ c.access_token # ""
    /\ c.has_expiry
    /\ t < c.expires_at

\* line 49 alone: the token is stored before the expiry is computed
CacheAfterToken(c, reply) == [c EXCEPT !.access_token = reply.access_token]

\* lines 46-50
CacheAfter(reply, t) ==
    [access_token |-> reply.access_token,
     has_expiry |-> TRUE,
     expires_at |-> t + (IF reply.has_expires_in THEN reply.expires_in ELSE DefaultExpiresIn)
                      - TokenMargin]

(***************************************************************************)
(* Endpoint operations: get_chart_svg, get_divisional_planet_position,     *)
(* get_kundli, get_dasha_periods                                           *)
(***************************************************************************)
Endpoints == {"chart", "divisional", "kundli", "dasha"}

ErrorThreshold == 400
SandboxStatus == 400

\* any(e.get("code") == "1004" for e in items), left to right: "raise" when an
\* element that is no object is met before an object with code "1004"
RECURSIVE AnyCode1004(_)
AnyCode1004(items) ==
    IF items = <<>> THEN "false"
    ELSE IF ~Head(items).obj THEN "raise"
    ELSE IF Head(items).code = "1004" THEN "true"
    ELSE AnyCode1004(Tail(items))

SandboxRetryDue_AnyErrorObject(resp) ==
    /\ JsonDecodes(resp.body)
    /\ resp.status = SandboxStatus
    /\ resp.body.kind = "object"
    /\ resp.body.errs = "list"
    /\ \E i \in 1..Len(resp.body.items) : resp.body.items[i].obj

\* The condition under which the retry is made. msg = resp.json() raises on
\* text; msg.get("errors", []) is [] when the key is absent; iterating null
\* raises; every exception is swallowed and leads to the final raise.
SandboxRetryDue(resp) ==
    /\ JsonDecodes(resp.body)
    /\ resp.status = SandboxStatus
    /\ resp.body.kind = "object"
    /\ resp.body.errs = "list"
    /\ AnyCode1004(resp.body.items) = "true"

\* resp2.raise_for_status(): raises for a 4xx or 5xx status
RaisesForStatus(status) ==
    400 <= status /\ status < 600

\* What a successful call hands back: resp.text for the chart, resp.json() for the others
Payload(e, resp) ==
    [form |-> IF e = "chart" THEN "text" ELSE "json", body |-> resp.body]

NoPayload == [form |-> "none", body |-> TextBody]

\* chart: resp.text never fails; the others: resp.json() must decode
PayloadDecodes(e, resp) ==
    e = "chart" \/ JsonDecodes(resp.body)

\* detail = resp.json(), or resp.text when that raises
Detail(resp) ==
    [form |-> IF JsonDecodes(resp.body) THEN "json" ELSE "text", body |-> resp.body]

NoResult ==
    [kind |-> "none", payload |-> NoPayload, used_fallback |-> FALSE,
     exc |-> "None", status |-> 0, reason |-> "None", detail |-> NoPayload]

Returned_NeverFallback(p, uf) ==
    [kind |-> "return", payload |-> p, used_fallback |-> FALSE,
     exc |-> "None", status |-> 0, reason |-> "None", detail |-> NoPayload]

Returned(p, uf) ==
    [kind |-> "return", payload |-> p, used_fallback |-> uf,
     exc |-> "None", status |-> 0, reason |-> "None", detail |-> NoPayload]

RaisedOther(name) ==
    [kind |-> "raise", payload |-> NoPayload, used_fallback |-> FALSE,
     exc |-> name, status |-> 0, reason |-> "None", detail |-> NoPayload]

\* raise requests.HTTPError(f"{resp.status_code} {resp.reason}: {detail}")
RaisedHttp(resp) ==
    [kind |-> "raise", payload |-> NoPayload, used_fallback |-> FALSE,
     exc |-> "HTTPError", status |-> resp.status, reason |-> ReasonOf(resp.status),
     detail |-> Detail(resp)]

TokenCall == [kind |-> "token", ep |-> "token", datetime |-> <<>>]
GetCall(e, datetime) == [kind |-> "get", ep |-> e, datetime |-> datetime]

FinalErrorSource_Retry(first, second) == IF second.got = "resp" THEN second ELSE first

\* lines 111-115: the final raise reads resp, the first response, also after a
\* retry that failed
FinalErrorSource(first, second) == first

AfterFailedRetry_Again == "retry"

\* A failed retry is swallowed (except Exception: pass) and control falls
\* through to the final raise: there is no loop.
AfterFailedRetry == "done"

\* token = self._get_token()
GetToken ==
    /\ pc = "token"
    /\ IF CacheFresh(cache, now)
       THEN /\ pc' = "first"
            /\ UNCHANGED <<cache, calls, result>>
       ELSE \E o \in TokenOutcomesNow :
              /\ calls' = Append(calls, TokenCall)
              /\ IF o.ok /\ o.in_range
                 THEN /\ cache' = CacheAfter(o, now)
                      /\ pc' = "first"
                      /\ UNCHANGED result
                 ELSE IF o.ok
                 THEN /\ cache' = CacheAfterToken(cache, o)
                      /\ result' = RaisedOther("OverflowError")
                      /\ pc' = "done"
                 ELSE /\ result' = RaisedOther("TokenError")
                      /\ pc' = "done"
                      /\ UNCHANGED cache
    /\ UNCHANGED <<now, ep, ts, resp1, resp2, used_fallback>>
    /\ UNCHANGED <<janVars, findVars, flatVars, appVars>>

\* resp = call(birth_dt_local_with_offset_iso) and what follows up to the
\* return, the raise or the second call
FirstRequest ==
    /\ pc = "first"
    /\ \E r \in GetOutcomesNow :
         /\ calls' = Append(calls, GetCall(ep, ts))
         /\ resp1' = r
         /\ IF r.got = "neterr"
            THEN /\ result' = RaisedOther("ConnectionError")
                 /\ pc' = "done"
                 /\ UNCHANGED used_fallback
            ELSE IF r.status < ErrorThreshold
            THEN /\ result' = IF PayloadDecodes(ep, r)
                              THEN Returned(Payload(ep, r), FALSE)
                              ELSE RaisedOther("JSONDecodeError")
                 /\ pc' = "done"
                 /\ UNCHANGED used_fallback
            ELSE IF SandboxRetryDue(r)
            THEN /\ used_fallback' = TRUE
                 /\ pc' = "retry"
                 /\ UNCHANGED result
            ELSE /\ result' = RaisedHttp(r)
                 /\ pc' = "done"
                 /\ UNCHANGED used_fallback
    /\ UNCHANGED <<cache, now, ep, ts, resp2>>
    /\ UNCHANGED <<janVars, findVars, flatVars, appVars>>

\* resp2 = call(self._force_jan1(...)); resp2.raise_for_status(); return
Retry ==
    /\ pc = "retry"
    /\ \E r \in GetOutcomesNow :
         /\ calls' = Append(calls, GetCall(ep, ForceJan1(ts)))
         /\ resp2' = r
         /\ IF r.got = "resp" /\ ~RaisesForStatus(r.status) /\ PayloadDecodes(ep, r)
            THEN /\ result' = Returned(Payload(ep, r), used_fallback)
                 /\ pc' = "done"
            ELSE /\ result' = IF AfterFailedRetry = "done" THEN RaisedHttp(FinalErrorSource(resp1, r)) ELSE result
                 /\ pc' = AfterFailedRetry
    /\ UNCHANGED <<cache, now, ep, ts, resp1, used_fallback>>
    /\ UNCHANGED <<janVars, findVars, flatVars, appVars>>

(***************************************************************************)
(* _force_jan1 on its own                                                  *)
(***************************************************************************)
IsoTexts ==
    LET Years == {Year2001, Year1987}
        Months == {Chars2("0", "1"), Chars2("1", "2")}
        Days == {Chars2("0", "1"), Chars2("2", "9")}
        Times == {Hms060600, Hms235959}
        Offsets == {OffPlus0530, OffMinus0800}
    IN  {Iso(y, m, d, h, o) : y \in Years, m \in Months, d \in Days, h \in Times, o \in Offsets}

\* Texts near the form: a newline, a letter or a space added, the offset
\* missing or compact, a space for the "T", a three-digit year, the date alone
Jan1Inputs ==
    IsoTexts
        \cup UNION {{w \o <<NL>>, w \o <<NL, NL>>, w \o <<"Z">>, <<" ">> \o w,
                     SubSeq(w, 1, 19), SubSeq(w, 1, 19) \o OffCompact,
                     [w EXCEPT ![11] = " "], Tail(w), SubSeq(w, 1, 10)} : w \in IsoTexts}
        \cup {<<>>}


MaxApplications == 2

JanIdle ==
    /\ iso_local = <<>>
    /\ jan_prev = <<>>
    /\ jan_text = <<>>
    /\ jan_applied = 0

ApplyForceJan1 ==
    /\ jan_applied < MaxApplications
    /\ jan_prev' = jan_text
    /\ jan_text' = ForceJan1(jan_text)
    /\ jan_applied' = jan_applied + 1
    /\ UNCHANGED iso_local
    /\ UNCHANGED <<clientVars, findVars, flatVars, appVars>>

(***************************************************************************)
(* Dasha helpers: _parse_dt, _find_period_covering                         *)
(***************************************************************************)
\* A value under a key of a period: null or absent (None), the empty string,
\* a string that is no date, or a string that parses to the instant t.
TNone == [k |-> "none", t |-> 0]
TEmpty == [k |-> "empty", t |-> 0]
TBad == [k |-> "bad", t |-> 0]
TAt(t) == [k |-> "time", t |-> t]

MaxInstant == 2
Instants == 0..MaxInstant

\* Python's truth of such a value: None and "" are false
TimeTruthy(v) == v.k \in {"bad", "time"}

\* a or b or c
TimeOr(a, b, c) == IF TimeTruthy(a) THEN a ELSE IF TimeTruthy(b) THEN b ELSE c

\* _parse_dt: pd.to_datetime(None) is None, of "" is NaT, of a string that is
\* no date raises (None); a date parses to its instant
ParseDt(v) ==
    CASE v.k = "time" -> [k |-> "time", t |-> v.t]
      [] v.k = "empty" -> [k |-> "nat", t |-> 0]
      [] OTHER -> [k |-> "none", t |-> 0]

Period(name, st, st_time, from, en, en_time, to) ==
    [name |-> name, start |-> st, start_time |-> st_time, from |-> from,
     end |-> en, end_time |-> en_time, to |-> to]

PeriodStart(p) == ParseDt(TimeOr(p.start, p.start_time, p.from))
PeriodEnd(p) == ParseDt(TimeOr(p.end, p.end_time, p.to))

Covers_EndExclusive(p, t) ==
    LET s == PeriodStart(p)
        e == PeriodEnd(p)
    IN  /\ s.k # "none" /\ e.k # "none"
        /\ s.k = "time" /\ e.k = "time"
        /\ s.t <= t /\ t < e.t

\* s is not None and e is not None and s <= now_ts <= e  (NaT compares false)
Covers(p, t) ==
    LET s == PeriodStart(p)
        e == PeriodEnd(p)
    IN  /\ s.k # "none" /\ e.k # "none"
        /\ s.k = "time" /\ e.k = "time"
        /\ s.t <= t /\ t <= e.t

NoPeriod == Period("None", TNone, TNone, TNone, TNone, TNone, TNone)
NotRun == [ran |-> FALSE, some |-> FALSE, p |-> NoPeriod]
FoundNone == [ran |-> TRUE, some |-> FALSE, p |-> NoPeriod]
FoundPeriod(p) == [ran |-> TRUE, some |-> TRUE, p |-> p]

RECURSIVE ScanPeriods(_, _)
ScanPeriods(items, t) ==
    IF items = <<>> THEN FoundNone
    ELSE IF Covers(Head(items), t) THEN FoundPeriod(Head(items))
    ELSE ScanPeriods(Tail(items), t)

\* _find_period_covering(periods, now_ts)
FindPeriodCovering(ps, t) ==
    IF ps.kind # "list" THEN FoundNone ELSE ScanPeriods(ps.items, t)

\* Periods of the model: start/end under the first key, every order of the two
\* instants; and entries with a missing, empty or unparsable side or with
\* their times under the other keys
PeriodEntries ==
    {Period("Ketu", TAt(a), TNone, TNone, TAt(b), TNone, TNone) : a \in Instants, b \in Instants}
    \cup
    {Period("Venus", TNone, TNone, TNone, TAt(MaxInstant), TNone, TNone),
     Period("Venus", TAt(0), TNone, TNone, TBad, TNone, TNone),
     Period("Venus", TBad, TAt(0), TNone, TAt(MaxInstant), TNone, TNone),
     Period("Venus", TEmpty, TAt(0), TNone, TNone, TAt(MaxInstant), TNone),
     Period("Venus", TNone, TNone, TAt(1), TNone, TNone, TAt(1)),
     Period("Venus", TNone, TNone, TEmpty, TNone, TNone, TAt(MaxInstant)),
     NoPeriod}

MaxPeriods == 2

\* The periods argument: null, a value that is no list (an object), or a list
PeriodLists ==
    {[kind |-> "null", items |-> <<>>], [kind |-> "object", items |-> <<>>]}
        \cup {[kind |-> "list", items |-> l] : l \in SeqsUpTo(PeriodEntries, MaxPeriods)}

\* The value under a key that should hold a list of periods: the key is
\* absent, or its value is null or a list
NoList == [kind |-> "absent", items |-> <<>>]
NullList == [kind |-> "null", items |-> <<>>]
ListOf(items) == [kind |-> "list", items |-> items]

\* `if periods`, `if all_ad`, `all_ad or []`: only a list that is not empty is true
ListTruthy(v) == v.kind = "list" /\ v.items # <<>>
ListOrEmpty(v) == IF ListTruthy(v) THEN v.items ELSE <<>>

\* A Mahadasha: a period with its "antardasha" key
Mahadasha(p, ads) ==
    [name |-> p.name, start |-> p.start, start_time |-> p.start_time, from |-> p.from,
     end |-> p.end, end_time |-> p.end_time, to |-> p.to, antardasha |-> ads]

\* An Antardasha: a period with its "pratyantardasha" key
Antardasha(p, pds) ==
    [name |-> p.name, start |-> p.start, start_time |-> p.start_time, from |-> p.from,
     end |-> p.end, end_time |-> p.end_time, to |-> p.to, pratyantardasha |-> pds]

\* The root of a dasha response: the list under "periods" and the list nested
\* in a named object
DashaRoot(top, nested) == [periods |-> top, nested |-> nested]

\* lines 231-245: the first key that holds a list, else the list of a nested object
TopPeriods(root) ==
    IF root.periods.kind = "list" THEN root.periods
    ELSE IF root.nested.kind = "list" THEN root.nested
    ELSE NullList

NoChain == [ran |-> FALSE, md |-> FoundNone, ad |-> FoundNone, pd |-> FoundNone, all_ad |-> <<>>, all_pd |-> <<>>]

ChildrenOf_WrongKey(parent, key) == NullList

\* current_md.get("antardasha") if isinstance(current_md, dict) else None
ChildrenOf(parent, key) == IF parent.some THEN parent.p[key] ELSE NullList

\* current_dasha_chain(resp_json, now_ts)
CurrentDashaChain(root, t) ==
    LET top == TopPeriods(root)
        current_md == IF ListTruthy(top) THEN FindPeriodCovering(top, t) ELSE FoundNone
        all_ad == ChildrenOf(current_md, "antardasha")
        current_ad == IF ListTruthy(all_ad) THEN FindPeriodCovering(all_ad, t) ELSE FoundNone
        all_pd == ChildrenOf(current_ad, "pratyantardasha")
        current_pd == IF ListTruthy(all_pd) THEN FindPeriodCovering(all_pd, t) ELSE FoundNone
    IN  [ran |-> TRUE, md |-> current_md, ad |-> current_ad, pd |-> current_pd,
         all_ad |-> ListOrEmpty(all_ad), all_pd |-> ListOrEmpty(all_pd)]

\* Periods of the three tiers: one that covers every instant, one that covers
\* the instant 1 alone, one whose start does not parse
Whole(name) == Period(name, TAt(0), TNone, TNone, TAt(MaxInstant), TNone, TNone)
Point(name) == Period(name, TNone, TAt(1), TNone, TNone, TNone, TAt(1))
Unparsed(name) == Period(name, TBad, TNone, TNone, TAt(MaxInstant), TNone, TNone)
\* The dasha responses: the top list absent, null under the first key, empty,
\* or of one or two mahadashas; each tier's periods cover the instants, cover
\* only instant 1, or do not parse; each nested list is absent, null, empty or
\* holds one or two periods
DashaResponses ==
    LET TierPeriods(a, b) == {Whole(a), Point(b), Unparsed(a)}
        PratyantardashaLists ==
            {NoList, ListOf(<<>>), ListOf(<<Point("Sun")>>), ListOf(<<Point("Sun"), Whole("Moon")>>),
             ListOf(<<Whole("Moon"), Whole("Sun")>>)}
        Antardashas == {Antardasha(p, pds) : p \in TierPeriods("Venus", "Mars"), pds \in PratyantardashaLists}
        AntardashaLists ==
            {NoList, NullList, ListOf(<<>>)}
                \cup {ListOf(<<a>>) : a \in Antardashas}
                \cup {ListOf(<<a, b>>) : a \in {Antardasha(Point("Mars"), NoList), Antardasha(Unparsed("Venus"), NoList)},
                                         b \in Antardashas}
        Mahadashas == {Mahadasha(p, ads) : p \in TierPeriods("Ketu", "Rahu"), ads \in AntardashaLists}
        MahadashaLists ==
            {ListOf(<<>>)}
                \cup {ListOf(<<m>>) : m \in Mahadashas}
                \cup {ListOf(<<Mahadasha(Point("Rahu"), NoList), m>>) : m \in Mahadashas}
    IN  {DashaRoot(NoList, NoList), DashaRoot(NullList, ListOf(<<Mahadasha(Whole("Ketu"), NoList)>>))}
            \cup {DashaRoot(l, NoList) : l \in MahadashaLists}

FindIdle ==
    /\ periods = [kind |-> "null", items |-> <<>>]
    /\ now_ts = 0
    /\ found = NotRun
    /\ dasha_json = DashaRoot(NoList, NoList)
    /\ chain = NoChain

CallFindPeriodCovering ==
    /\ ~found.ran
    /\ found' = FindPeriodCovering(periods, now_ts)
    /\ UNCHANGED <<periods, now_ts, dasha_json, chain>>
    /\ UNCHANGED <<clientVars, janVars, flatVars, appVars>>

(***************************************************************************)
(* Response normalisers: flatten_divisional_positions,                     *)
(* flatten_kundli_planets, flatten_kundli_houses                           *)
(***************************************************************************)
\* A JSON scalar under a key; d.get(key) of an absent key is null as well
JNull == [k |-> "null", n |-> 0, s |-> "", b |-> FALSE]
JInt(n) == [k |-> "int", n |-> n, s |-> "", b |-> FALSE]
JStr(s) == [k |-> "str", n |-> 0, s |-> s, b |-> FALSE]
JBool(b) == [k |-> "bool", n |-> 0, s |-> "", b |-> b]

\* Python's truth of a value: None, 0, "" and False are false
Truthy(v) ==
    CASE v.k = "null" -> FALSE
      [] v.k = "int" -> v.n # 0
      [] v.k = "str" -> v.s # ""
      [] v.k = "bool" -> v.b

\* a or b
JOr(a, b) == IF Truthy(a) THEN a ELSE b

\* One element of a planet list. planet_name and planet_vedic_name are the
\* keys of the nested "planet" object (has_planet: it is there and not empty),
\* name and vedic_name those of the element itself; sign_*, nak_* and
\* position_degree, house_number are keys of nested objects.
PlanetEntry(has_planet, planet_name, planet_vedic_name, name, vedic_name, house_number, pada, nak_pada, degree, longitude, position_degree, retro, is_retro, motion) ==
    [has_planet |-> has_planet, planet_name |-> planet_name,
     planet_vedic_name |-> planet_vedic_name, name |-> name, vedic_name |-> vedic_name,
     sign_name |-> JNull, sign_lord_vedic_name |-> JNull, sign_lord_name |-> JNull,
     nak_name |-> JNull, nak_lord_vedic_name |-> JNull, nak_lord_name |-> JNull,
     nak_pada |-> nak_pada, pada |-> pada,
     degree |-> degree, longitude |-> longitude, position_degree |-> position_degree,
     house_number |-> house_number,
     retro |-> retro, is_retro |-> is_retro, motion |-> motion]

\* {} or any object without a recognised key
EmptyPlanetEntry ==
    PlanetEntry(FALSE, JNull, JNull, JNull, JNull, JNull,
                JNull, JNull, JNull, JNull, JNull, JNull, JNull, JNull)

\* retro = p.get("retro"); if None: p.get("is_retro"); if None:
\* (p.get("motion") == "retrograde"); "Retro": bool(retro) if retro is not None else None
ResolveRetro(p) ==
    LET r1 == p.retro
        r2 == IF r1.k = "null" THEN p.is_retro ELSE r1
        r3 == IF r2.k = "null" THEN JBool(p.motion = JStr("retrograde")) ELSE r2
    IN  IF r3.k # "null" THEN JBool(Truthy(r3)) ELSE JNull

\* planet.get("vedic_name") or ""
PlanetVedic(v) == JOr(v, JStr(""))

\* The row of flatten_kundli_planets for one element
KundliPlanetRow(p) ==
    [House_No |-> p.house_number,
     Planet |-> IF p.has_planet THEN JOr(p.planet_name, p.planet_vedic_name)
                ELSE JOr(p.name, p.vedic_name),
     Planet_Vedic |-> PlanetVedic(IF p.has_planet THEN p.planet_vedic_name ELSE p.vedic_name),
     Rasi |-> p.sign_name,
     Rasi_Lord |-> JOr(p.sign_lord_vedic_name, p.sign_lord_name),
     Nakshatra |-> p.nak_name,
     Nakshatra_Lord |-> JOr(p.nak_lord_vedic_name, p.nak_lord_name),
     Pada |-> JOr(p.nak_pada, p.pada),
     Degree |-> JOr(JOr(p.degree, p.longitude), p.position_degree),
     Retro |-> ResolveRetro(p)]

\* One element of the divisional positions: a house with its planets
HouseEntry(house_number, planet_positions) ==
    [house_number |-> house_number, house_name |-> JNull, rasi_name |-> JNull,
     rasi_lord_vedic_name |-> JNull, rasi_lord_name |-> JNull,
     planet_positions |-> planet_positions]

\* The row of flatten_divisional_positions for planet p of house h
DivisionalRow(h, p) ==
    [House_No |-> h.house_number,
     House |-> h.house_name,
     Rasi |-> h.rasi_name,
     Rasi_Lord |-> JOr(h.rasi_lord_vedic_name, h.rasi_lord_name),
     Planet |-> JOr(p.planet_name, p.planet_vedic_name),
     Planet_Vedic |-> PlanetVedic(p.planet_vedic_name),
     Nakshatra |-> p.nak_name,
     Nakshatra_Lord |-> JOr(p.nak_lord_vedic_name, p.nak_lord_name),
     Pada |-> JOr(p.nak_pada, p.pada),
     Degree |-> JOr(JOr(p.degree, p.longitude), p.position_degree),
     Retro |-> ResolveRetro(p)]

\* One element of a house list: "house" absent, null or an object with number
\* and name; number and name also as keys of the element itself
KundliHouse(house, house_number, house_name, number, name) ==
    [house |-> house, house_number |-> house_number, house_name |-> house_name,
     number |-> number, name |-> name, rasi_name |-> JNull,
     degree |-> JNull, longitude |-> JNull, cusp_degree |-> JNull]

EmptyKundliHouse == KundliHouse("absent", JNull, JNull, JNull, JNull)

\* The row of flatten_kundli_houses: house_info = h.get("house", h) or {}
KundliHouseRow(h) ==
    LET info_number == CASE h.house = "absent" -> h.number
                         [] h.house = "object" -> h.house_number
                         [] OTHER -> JNull
        info_name == CASE h.house = "absent" -> h.name
                       [] h.house = "object" -> h.house_name
                       [] OTHER -> JNull
    IN  [House_No |-> JOr(info_number, h.number),
         House |-> JOr(info_name, h.name),
         Rasi |-> h.rasi_name,
         Degree |-> JOr(JOr(h.degree, h.longitude), h.cusp_degree)]

\* --- rows.sort(key=lambda r: (House No or 99 when None, str(Planet))) ---
MissingHouseKey == 99

HouseKey_MissingFirst(v) == IF v.k = "null" THEN 0 - 1 ELSE v.n

HouseKey(v) == IF v.k = "null" THEN MissingHouseKey ELSE v.n

\* The characters of the names the model uses
Chars(s) ==
    CASE s = "Mars" -> <<"M", "a", "r", "s">>
      [] s = "Sun" -> <<"S", "u", "n">>
      [] s = "None" -> <<"N", "o", "n", "e">>
      [] OTHER -> <<>>

CodePoint(c) ==
    CASE c = "M" -> 77 [] c = "N" -> 78 [] c = "S" -> 83 [] c = "a" -> 97
      [] c = "e" -> 101 [] c = "n" -> 110 [] c = "o" -> 111 [] c = "r" -> 114
      [] c = "s" -> 115 [] c = "u" -> 117 [] OTHER -> 0

\* str(value): "None" for None
StrOf(v) == IF v.k = "null" THEN Chars("None") ELSE Chars(v.s)

\* a < b for two texts, by code point
RECURSIVE TextLess(_, _)
TextLess(a, b) ==
    IF b = <<>> THEN FALSE
    ELSE IF a = <<>> THEN TRUE
    ELSE IF CodePoint(Head(a)) # CodePoint(Head(b)) THEN CodePoint(Head(a)) < CodePoint(Head(b))
    ELSE TextLess(Tail(a), Tail(b))

PlanetRowKey(r) == [h |-> HouseKey(r.House_No), s |-> StrOf(r.Planet)]
HouseRowKey(r) == [h |-> HouseKey(r.House_No), s |-> <<>>]

\* Tuple comparison of two keys
KeyLess(x, y) == x.h < y.h \/ (x.h = y.h /\ TextLess(x.s, y.s))

\* list.sort is stable: an element goes behind the elements whose key is not greater
RECURSIVE InsertByKey(_, _)
InsertByKey(sorted, x) ==
    IF sorted = <<>> THEN <<x>>
    ELSE IF KeyLess(x.key, Head(sorted).key) THEN <<x>> \o sorted
    ELSE <<Head(sorted)>> \o InsertByKey(Tail(sorted), x)

RECURSIVE SortDecorated(_, _)
SortDecorated(todo, sorted) ==
    IF todo = <<>> THEN sorted
    ELSE SortDecorated(Tail(todo), InsertByKey(sorted, Head(todo)))

SortPlanetRows(rs) ==
    LET decorated == [i \in 1..Len(rs) |-> [key |-> PlanetRowKey(rs[i]), row |-> rs[i]]]
        sorted == SortDecorated(decorated, <<>>)
    IN  [i \in 1..Len(rs) |-> sorted[i].row]

SortHouseRows(rs) ==
    LET decorated == [i \in 1..Len(rs) |-> [key |-> HouseRowKey(rs[i]), row |-> rs[i]]]
        sorted == SortDecorated(decorated, <<>>)
    IN  [i \in 1..Len(rs) |-> sorted[i].row]

RECURSIVE Flatten(_)
Flatten(seqs) == IF seqs = <<>> THEN <<>> ELSE Head(seqs) \o Flatten(Tail(seqs))

\* flatten_kundli_planets: no list under any of the keys, or an empty one, gives []
FlattenKundliPlanets(rj) ==
    IF ~rj.present \/ rj.items = <<>> THEN <<>>
    ELSE SortPlanetRows([i \in 1..Len(rj.items) |-> KundliPlanetRow(rj.items[i])])

\* flatten_divisional_positions
FlattenDivisionalPositions(rj) ==
    IF ~rj.present THEN <<>>
    ELSE SortPlanetRows(Flatten(
            [i \in 1..Len(rj.items) |->
                [j \in 1..Len(rj.items[i].planet_positions) |->
                    DivisionalRow(rj.items[i], rj.items[i].planet_positions[j])]]))

\* flatten_kundli_houses
FlattenKundliHouses(rj) ==
    IF ~rj.present THEN <<>>
    ELSE SortHouseRows([i \in 1..Len(rj.items) |-> KundliHouseRow(rj.items[i])])

\* --- what the model feeds in ---
MaxRows == 2

\* The resp_json argument of the three functions: the list key absent, or a
\* list of elements.  NamedPlanets differ in house number and name;
\* RetroPlanets differ in the three retrograde keys; AlternativeKeyPlanets
\* differ in the keys of the degree and of the pada: absent or null, a value
\* Python takes as false (0, "", false), or another value.
FlattenInputs ==
    LET HouseNumbers == {JNull, JInt(1), JInt(2), JInt(99), JInt(100)}
        RetroFlags == {JNull, JBool(TRUE), JBool(FALSE)}
        Motions == {JNull, JStr("retrograde"), JStr("direct")}
        FalsyValues == {JInt(0), JStr(""), JBool(FALSE)}
        NamedPlanets ==
            {PlanetEntry(FALSE, JNull, JNull, nm, JNull, h, JNull, JNull, JNull, JNull, JNull,
                         JNull, JNull, JNull) : nm \in {JNull, JStr("Mars"), JStr("Sun")}, h \in HouseNumbers}
        RetroPlanets ==
            {PlanetEntry(TRUE, JStr("Mars"), JStr("Sun"), JNull, JNull, JInt(1), JInt(2), JNull,
                         JInt(3), JNull, JNull, r, ir, mo) :
                r \in RetroFlags, ir \in RetroFlags, mo \in Motions}
            \cup {PlanetEntry(FALSE, JNull, JNull, JNull, JNull, JNull, JNull, JNull,
                         JNull, JNull, JNull, r, ir, mo) :
                r \in RetroFlags, ir \in RetroFlags, mo \in Motions}
        NestedPlanet(nm) ==
            PlanetEntry(TRUE, nm, JNull, JNull, JNull, JNull, JNull, JNull, JNull, JNull, JNull,
                        JNull, JNull, JNull)
        AlternativeKeyPlanets ==
            {PlanetEntry(TRUE, JStr("Mars"), JNull, JNull, JNull, JInt(1), JNull, JNull,
                         d, lg, pd, JNull, JNull, JNull) :
                d \in {JNull, JInt(7)} \cup FalsyValues, lg \in {JNull, JInt(8)} \cup FalsyValues,
                pd \in {JNull, JInt(9)}}
            \cup {PlanetEntry(TRUE, JStr("Mars"), JNull, JNull, JNull, JInt(1), pa, npa,
                         JNull, JNull, JNull, JNull, JNull, JNull) :
                pa \in {JNull, JInt(0), JInt(3)}, npa \in {JNull, JInt(0), JInt(4)}}
        PlanetPositionLists ==
            {<<>>, <<EmptyPlanetEntry>>, <<NestedPlanet(JStr("Mars"))>>,
             <<NestedPlanet(JStr("Sun")), NestedPlanet(JStr("Mars"))>>,
             <<NestedPlanet(JStr("Sun")), EmptyPlanetEntry>>}
        HouseEntries == {HouseEntry(h, ps) : h \in HouseNumbers, ps \in PlanetPositionLists}
        KundliHouses ==
            {KundliHouse(hs, hn, JNull, n, IF n = JNull THEN JNull ELSE JStr("Lagna")) :
                hs \in {"absent", "null", "object"}, hn \in {JNull, JInt(1)},
                n \in {JNull, JInt(2), JInt(100)}}
        ZeroKundliHouses == {KundliHouse("object", JInt(0), JNull, n, JNull) : n \in {JNull, JInt(2)}}
    IN  {[fn |-> "kundli_planets", present |-> FALSE, items |-> <<>>],
         [fn |-> "divisional", present |-> FALSE, items |-> <<>>],
         [fn |-> "kundli_houses", present |-> FALSE, items |-> <<>>]}
        \cup {[fn |-> "kundli_planets", present |-> TRUE, items |-> l] :
                l \in SeqsUpTo(NamedPlanets, MaxRows)
                        \cup {<<p>> : p \in RetroPlanets \cup AlternativeKeyPlanets}}
        \cup {[fn |-> "divisional", present |-> TRUE, items |-> l] :
                l \in SeqsUpTo(HouseEntries, MaxRows)
                        \cup {<<HouseEntry(JInt(1), <<p>>)>> : p \in RetroPlanets \cup AlternativeKeyPlanets}}
        \cup {[fn |-> "kundli_houses", present |-> TRUE, items |-> l] :
                l \in SeqsUpTo(KundliHouses, MaxRows) \cup {<<h>> : h \in ZeroKundliHouses}}

NotFlattened == [done |-> FALSE, rows |-> <<>>]

FlatIdle ==
    /\ resp_json = [fn |-> "none", present |-> FALSE, items |-> <<>>]
    /\ rows = NotFlattened

CallFlattenKundliPlanets ==
    /\ resp_json.fn = "kundli_planets" /\ ~rows.done
    /\ rows' = [done |-> TRUE, rows |-> FlattenKundliPlanets(resp_json)]
    /\ UNCHANGED resp_json
    /\ UNCHANGED <<clientVars, janVars, findVars, appVars>>

CallFlattenDivisionalPositions ==
    /\ resp_json.fn = "divisional" /\ ~rows.done
    /\ rows' = [done |-> TRUE, rows |-> FlattenDivisionalPositions(resp_json)]
    /\ UNCHANGED resp_json
    /\ UNCHANGED <<clientVars, janVars, findVars, appVars>>

CallFlattenKundliHouses ==
    /\ resp_json.fn = "kundli_houses" /\ ~rows.done
    /\ rows' = [done |-> TRUE, rows |-> FlattenKundliHouses(resp_json)]
    /\ UNCHANGED resp_json
    /\ UNCHANGED <<clientVars, janVars, findVars, appVars>>

(***************************************************************************)
(* The script of app.py: the submit handler and the render step            *)
(***************************************************************************)
\* pob.strip()
RECURSIVE StripLeft(_)
StripLeft(t) == IF t # <<>> /\ Head(t) = " " THEN StripLeft(Tail(t)) ELSE t

RECURSIVE StripRight(_)
StripRight(t) ==
    IF t # <<>> /\ t[Len(t)] = " " THEN StripRight(SubSeq(t, 1, Len(t) - 1)) ELSE t

Strip(t) == StripRight(StripLeft(t))



NoPart == [payload |-> NoPayload, used_fallback |-> FALSE]
Part(res) == [payload |-> res.payload, used_fallback |-> res.used_fallback]

EmptyLocals ==
    [address |-> <<>>, chart |-> NoPart, divisional |-> NoPart, kundli |-> NoPart,
     dasha |-> NoPart]

NoResults ==
    [set |-> FALSE, address |-> <<>>, chart |-> NoPart, divisional |-> NoPart,
     kundli |-> NoPart, dasha |-> NoPart]

\* st.session_state["results"] = {...}
ResultsOf(l) ==
    [set |-> TRUE, address |-> l.address, chart |-> l.chart, divisional |-> l.divisional,
     kundli |-> l.kundli, dasha |-> l.dasha]

ResultsOnError_Kept(res) == res

\* except Exception as e: st.session_state["results"] = None
ResultsOnError(res) == NoResults

NoExc == [set |-> FALSE, exc |-> "None", status |-> 0]
\* str(e): no message of the handler's exceptions is empty
Exc(name, status) == [set |-> TRUE, exc |-> name, status |-> status]

\* resp_json.get(...) of the normalisers raises on a JSON value that is no object
NormalizationRaises(e, payload) == e # "chart" /\ payload.body.kind # "object"

NextEndpoint(e) ==
    CASE e = "chart" -> "divisional"
      [] e = "divisional" -> "kundli"
      [] e = "kundli" -> "dasha"
      [] OTHER -> "none"

GeocodeCall == [kind |-> "geocode", ep |-> "geocode", datetime |-> <<>>]

NoDisplay == <<>>
Shown(kind, err, res) == [kind |-> kind, err |-> err, res |-> res]

\* if err: st.error(err) / elif res is None: st.info(...) / else: the results
RenderOf(res, err) ==
    IF err.set THEN <<Shown("error", err, NoResults)>>
    ELSE IF ~res.set THEN <<Shown("info", NoExc, NoResults)>>
    ELSE <<Shown("results", NoExc, res)>>

MaxSubmissions == 2

ClientConstructs_IdOnly(c) == c.id

\* ProkeralaClient(): __init__ raises ValueError unless both the client id and
\* the client secret are set and not empty
ClientConstructs(c) == c.id /\ c.secret

AppOff ==
    /\ apc = "off"
    /\ credentials = [id |-> TRUE, secret |-> TRUE]
    /\ pob = <<>>
    /\ locals = EmptyLocals
    /\ exc = NoExc
    /\ results = NoResults
    /\ errors = NoExc
    /\ display = NoDisplay
    /\ submissions = 0
    /\ outcome = "none"

\* if submit: the checks before the first network call (lines 312-315)
Submit(place) ==
    /\ apc = "idle"
    /\ submissions < MaxSubmissions
    /\ submissions' = submissions + 1
    /\ pob' = place
    /\ locals' = EmptyLocals
    /\ display' = NoDisplay
    /\ calls' = <<>>
    /\ IF Strip(place) = <<>>
       THEN /\ exc' = Exc("ValueError: Please enter a valid Place of Birth.", 0)
            /\ apc' = "except"
            /\ outcome' = "failed"
       ELSE IF ~ClientConstructs(credentials)
       THEN /\ exc' = Exc("ValueError: Missing PROKERALA_CLIENT_ID or PROKERALA_CLIENT_SECRET", 0)
            /\ apc' = "except"
            /\ outcome' = "failed"
       ELSE /\ exc' = NoExc
            /\ apc' = "geocode"
            /\ outcome' = "running"
    /\ UNCHANGED <<credentials, results, errors>>
    /\ UNCHANGED <<cache, now, pc, ep, ts, resp1, resp2, used_fallback, result>>
    /\ UNCHANGED <<janVars, findVars, flatVars>>

\* geocode_place, infer_timezone, local_birth_to_iso_with_offset, and the call
\* of get_chart_svg
Geocode ==
    /\ apc = "geocode"
    /\ calls' = Append(calls, GeocodeCall)
    /\ \E geo \in {"found", "not found", "error"}, tz \in {"found", "not found"},
          t \in {DefaultBirthIso, Iso(Year1987, Chars2("0", "1"), Chars2("0", "1"), Hms235959, OffMinus0800)} :
         IF geo # "found" \/ tz # "found"
         THEN /\ exc' = (CASE geo = "error" -> Exc("GeocoderServiceError", 0)
                           [] geo = "not found" -> Exc("ValueError: Unable to geocode the given place.", 0)
                           [] OTHER -> Exc("ValueError: Unable to infer time zone from coordinates.", 0))
              /\ apc' = "except"
              /\ outcome' = "failed"
              /\ UNCHANGED <<locals, pc, ep, ts, resp1, resp2, used_fallback, result>>
         ELSE /\ locals' = [locals EXCEPT !.address = Strip(pob)]
              /\ apc' = "endpoint"
              /\ pc' = "token"
              /\ ep' = "chart"
              /\ ts' = t
              /\ resp1' = NoResp
              /\ resp2' = NoResp
              /\ used_fallback' = FALSE
              /\ result' = NoResult
              /\ UNCHANGED <<exc, outcome>>
    /\ UNCHANGED <<credentials, pob, results, errors, display, submissions>>
    /\ UNCHANGED <<cache, now>>
    /\ UNCHANGED <<janVars, findVars, flatVars>>

\* An endpoint operation has returned or raised: its payload is normalised
\* and the next operation is called (lines 323-375)
EndpointDone ==
    /\ apc = "endpoint"
    /\ pc = "done"
    /\ IF result.kind = "raise"
       THEN /\ exc' = Exc(result.exc, result.status)
            /\ apc' = "except"
            /\ outcome' = "failed"
            /\ pc' = "idle"
            /\ resp1' = NoResp
            /\ resp2' = NoResp
            /\ used_fallback' = FALSE
            /\ result' = NoResult
            /\ UNCHANGED <<locals, ep>>
       ELSE IF NormalizationRaises(ep, result.payload)
       THEN /\ exc' = Exc("AttributeError: 'list' object has no attribute 'get'", 0)
            /\ apc' = "except"
            /\ outcome' = "failed"
            /\ pc' = "idle"
            /\ resp1' = NoResp
            /\ resp2' = NoResp
            /\ used_fallback' = FALSE
            /\ result' = NoResult
            /\ UNCHANGED <<locals, ep>>
       ELSE /\ locals' = [locals EXCEPT ![ep] = Part(result)]
            /\ IF NextEndpoint(ep) = "none"
               THEN /\ apc' = "store"
                    /\ outcome' = "succeeded"
                    /\ pc' = "idle"
                    /\ resp1' = NoResp
                    /\ resp2' = NoResp
                    /\ used_fallback' = FALSE
                    /\ result' = NoResult
                    /\ UNCHANGED ep
               ELSE /\ pc' = "token"
                    /\ ep' = NextEndpoint(ep)
                    /\ resp1' = NoResp
                    /\ resp2' = NoResp
                    /\ used_fallback' = FALSE
                    /\ result' = NoResult
                    /\ UNCHANGED <<apc, outcome>>
            /\ UNCHANGED exc
    /\ UNCHANGED <<credentials, pob, results, errors, display, submissions>>
    /\ UNCHANGED <<cache, now, ts, calls>>
    /\ UNCHANGED <<janVars, findVars, flatVars>>

\* st.session_state["results"] = {...}
StoreResults ==
    /\ apc = "store"
    /\ results' = ResultsOf(locals)
    /\ apc' = "store errors"
    /\ UNCHANGED <<credentials, pob, locals, exc, errors, display, submissions, outcome>>
    /\ UNCHANGED <<clientVars, janVars, findVars, flatVars>>

\* st.session_state["errors"] = None
ClearErrors ==
    /\ apc = "store errors"
    /\ errors' = NoExc
    /\ apc' = "render"
    /\ UNCHANGED <<credentials, pob, locals, exc, results, display, submissions, outcome>>
    /\ UNCHANGED <<clientVars, janVars, findVars, flatVars>>

\* except Exception as e: st.session_state["results"] = None
ExceptClearResults ==
    /\ apc = "except"
    /\ results' = ResultsOnError(results)
    /\ apc' = "except errors"
    /\ UNCHANGED <<credentials, pob, locals, exc, errors, display, submissions, outcome>>
    /\ UNCHANGED <<clientVars, janVars, findVars, flatVars>>

\* st.session_state["errors"] = str(e)
ExceptStoreError ==
    /\ apc = "except errors"
    /\ errors' = exc
    /\ apc' = "render"
    /\ UNCHANGED <<credentials, pob, locals, exc, results, display, submissions, outcome>>
    /\ UNCHANGED <<clientVars, janVars, findVars, flatVars>>

\* The render step, which ends the run of the script and with it the
\* handler's variables
Render ==
    /\ apc = "render"
    /\ display' = RenderOf(results, errors)
    /\ apc' = "idle"
    /\ locals' = EmptyLocals
    /\ exc' = NoExc
    /\ UNCHANGED <<credentials, pob, results, errors, submissions, outcome>>
    /\ UNCHANGED <<clientVars, janVars, findVars, flatVars>>

\* The script runs again without a submission (any other interaction): only
\* the render step does something
Rerun ==
    /\ apc = "idle"
    /\ display # NoDisplay
    /\ display' = NoDisplay
    /\ apc' = "render"
    /\ UNCHANGED <<credentials, pob, locals, exc, results, errors, submissions, outcome>>
    /\ UNCHANGED <<clientVars, janVars, findVars, flatVars>>

(***************************************************************************)
(* The client on its own: any endpoint operation, called again and again   *)
(***************************************************************************)
TimestampInputs ==
    {DefaultBirthIso,
     Iso(Year1987, Chars2("0", "1"), Chars2("0", "1"), Hms235959, OffMinus0800),
     Iso(Year2001, Chars2("1", "2"), Chars2("2", "9"), Hms060600, OffCompact)}

Invoke(e, t) ==
    /\ apc = "off"
    /\ pc \in {"idle", "done"}
    /\ pc' = "token"
    /\ ep' = e
    /\ ts' = t
    /\ resp1' = NoResp
    /\ resp2' = NoResp
    /\ used_fallback' = FALSE
    /\ calls' = <<>>
    /\ result' = NoResult
    /\ UNCHANGED <<cache, now>>
    /\ UNCHANGED <<janVars, findVars, flatVars, appVars>>

ClientIdle ==
    /\ cache = EmptyCache
    /\ now = 0
    /\ pc = "idle"
    /\ ep = "chart"
    /\ ts = DefaultBirthIso
    /\ resp1 = NoResp
    /\ resp2 = NoResp
    /\ used_fallback = FALSE
    /\ calls = <<>>
    /\ result = NoResult

InitClient ==
    /\ ClientIdle
    /\ JanIdle
    /\ FindIdle
    /\ FlatIdle
    /\ AppOff

NextClient ==
    \/ \E e \in Endpoints, t \in TimestampInputs : Invoke(e, t)
    \/ GetToken
    \/ FirstRequest
    \/ Retry

SpecClient == InitClient /\ [][NextClient]_vars

(***************************************************************************)
(* The client over time: one operation called again and again while the    *)
(* clock that _get_token reads moves on between the calls                  *)
(***************************************************************************)
\* dt.datetime.utcnow() has moved on by the next call of _get_token
ClockAdvance(t) ==
    /\ apc = "off"
    /\ pc \in {"idle", "done"}
    /\ t > now
    /\ now' = t
    /\ UNCHANGED <<cache, pc, ep, ts, resp1, resp2, used_fallback, calls, result>>
    /\ UNCHANGED <<janVars, findVars, flatVars, appVars>>

\* The clock values: the start, and the seconds around the expiry of a token
\* fetched at the start
NextToken ==
    \/ \E t \in {0, TokenMargin - 1, TokenMargin, DefaultExpiresIn - TokenMargin} : ClockAdvance(t)
    \/ Invoke("kundli", DefaultBirthIso)
    \/ GetToken
    \/ FirstRequest
    \/ Retry

SpecToken == InitClient /\ [][NextToken]_vars

InitJan1 ==
    /\ ClientIdle
    /\ FindIdle
    /\ FlatIdle
    /\ AppOff
    /\ iso_local \in Jan1Inputs
    /\ jan_prev = iso_local
    /\ jan_text = iso_local
    /\ jan_applied = 0

NextJan1 == ApplyForceJan1

SpecJan1 == InitJan1 /\ [][NextJan1]_vars

InitFind ==
    /\ ClientIdle
    /\ JanIdle
    /\ FlatIdle
    /\ AppOff
    /\ periods \in PeriodLists
    /\ now_ts \in Instants
    /\ found = NotRun
    /\ dasha_json = DashaRoot(NoList, NoList)
    /\ chain = NoChain

NextFind == CallFindPeriodCovering

SpecFind == InitFind /\ [][NextFind]_vars

\* current_dasha_chain, applied once to a response and an instant
CallCurrentDashaChain ==
    /\ ~chain.ran
    /\ chain' = CurrentDashaChain(dasha_json, now_ts)
    /\ UNCHANGED <<periods, now_ts, found, dasha_json>>
    /\ UNCHANGED <<clientVars, janVars, flatVars, appVars>>

InitDasha ==
    /\ ClientIdle
    /\ JanIdle
    /\ FlatIdle
    /\ AppOff
    /\ periods = [kind |-> "null", items |-> <<>>]
    /\ found = NotRun
    /\ now_ts \in Instants
    /\ dasha_json \in DashaResponses
    /\ chain = NoChain

NextDasha == CallCurrentDashaChain

SpecDasha == InitDasha /\ [][NextDasha]_vars

InitFlatten ==
    /\ ClientIdle
    /\ JanIdle
    /\ FindIdle
    /\ AppOff
    /\ resp_json \in FlattenInputs
    /\ rows = NotFlattened

NextFlatten ==
    \/ CallFlattenKundliPlanets
    \/ CallFlattenDivisionalPositions
    \/ CallFlattenKundliHouses

SpecFlatten == InitFlatten /\ [][NextFlatten]_vars

\* The first run of the script: session state set to None, nothing submitted
InitApp ==
    /\ ClientIdle
    /\ JanIdle
    /\ FindIdle
    /\ FlatIdle
    /\ apc = "render"
    /\ credentials \in [id : BOOLEAN, secret : BOOLEAN]
    /\ pob = <<>>
    /\ locals = EmptyLocals
    /\ exc = NoExc
    /\ results = NoResults
    /\ errors = NoExc
    /\ display = NoDisplay
    /\ submissions = 0
    /\ outcome = "none"

NextApp ==
    \/ \E place \in {<<>>, <<" ", " ">>, <<" ", "D", "e", "l", "h", "i">>, <<"P", "u", "n", "e">>} : Submit(place)
    \/ Geocode
    \/ GetToken
    \/ FirstRequest
    \/ Retry
    \/ EndpointDone
    \/ StoreResults
    \/ ClearErrors
    \/ ExceptClearResults
    \/ ExceptStoreError
    \/ Render
    \/ Rerun

SpecApp == InitApp /\ [][NextApp]_vars

(***************************************************************************)
(* Claims about the endpoint operations (checked under SpecClient)         *)
(***************************************************************************)
NumGets == Cardinality({i \in 1..Len(calls) : calls[i].kind = "get"})

GetDatetimes == [i \in 1..NumGets |->
                    LET gets == SelectSeq(calls, LAMBDA c : c.kind = "get") IN gets[i].datetime]

\* The body is JSON, an object, and holds at least one error object with code "1004"
HasError1004(body) ==
    /\ body.kind = "object"
    /\ body.errs = "list"
    /\ \E i \in 1..Len(body.items) : body.items[i] = E1004

\* ... and no element before the first such object is something else than an object
HasError1004First(body) ==
    /\ body.kind = "object"
    /\ body.errs = "list"
    /\ \E i \in 1..Len(body.items) :
         /\ body.items[i] = E1004
         /\ \A j \in 1..(i - 1) : body.items[j].obj

\* t has the form YYYY-MM-DDTHH:MM:SS+HH:MM and d is t with month and day 01-01
IsJan1Of(d, t) ==
    /\ Len(d) = Len(t)
    /\ \A i \in 1..Len(t) :
         d[i] = (CASE i \in {6, 9} -> "0" [] i \in {7, 10} -> "1" [] OTHER -> t[i])

WellFormedInputs == {t \in TimestampInputs : Len(t) = IsoLen /\ t[23] = ":"}

\* The retry produced a payload: a status below the threshold and a body the
\* operation can hand back
RetrySucceeded ==
    /\ resp2.got = "resp"
    /\ resp2.status < ErrorThreshold
    /\ (ep # "chart" => resp2.body.kind # "text")

RetryAnswer ==
    /\ NumGets = 2
    /\ GetDatetimes[1] = ts
    /\ GetDatetimes[2] = ForceJan1(ts)
    /\ (ts \in WellFormedInputs => IsJan1Of(GetDatetimes[2], ts))
    /\ (RetrySucceeded =>
          /\ result.kind = "return"
          /\ result.used_fallback = TRUE
          /\ result.payload.body = resp2.body)

\* C1 as stated: an error status of any value with an error object of code
\* "1004" in the body leads to exactly one retry with the 01-01 timestamp, whose
\* payload is returned with used_fallback = true when it succeeds.
C1_AnyErrorStatusRetries ==
    (pc = "done" /\ resp1.got = "resp" /\ resp1.status >= ErrorThreshold
        /\ HasError1004(resp1.body))
    => RetryAnswer

\* C1 amended: the retry is made when the status is exactly 400 and the scan of
\* the errors array meets an object with code "1004" before any element that is
\* no object; then there is exactly one further request, with _force_jan1 of the
\* timestamp, and a successful retry is returned with used_fallback = true.
C1_Status400Retries ==
    (pc = "done" /\ resp1.got = "resp" /\ resp1.status = 400
        /\ HasError1004First(resp1.body))
    => RetryAnswer

C1_Witness ==
    /\ pc = "done" /\ resp1.got = "resp" /\ resp1.status = 400
    /\ HasError1004First(resp1.body)
    /\ ts \in WellFormedInputs
    /\ RetrySucceeded /\ result.kind = "return" /\ result.used_fallback

\* C2: an error status whose body is not the sandbox signature (no JSON, no
\* object, or no error object with code "1004") gives no second request and an
\* error carrying the status and the parsed-or-raw body, never a payload.
C2_OtherErrorsPropagate ==
    (resp1.got = "resp" /\ resp1.status >= ErrorThreshold /\ ~HasError1004(resp1.body))
    => /\ pc = "done"
       /\ NumGets = 1
       /\ resp2 = NoResp
       /\ result.kind = "raise"
       /\ result.exc = "HTTPError"
       /\ result.status = resp1.status
       /\ result.detail.body = resp1.body
       /\ result.detail.form = (IF resp1.body.kind = "text" THEN "text" ELSE "json")

C2_Witness ==
    /\ pc = "done" /\ resp1.got = "resp" /\ resp1.status = 400
    /\ resp1.body = ObjectBody("list", <<EOther>>)
    /\ result.kind = "raise" /\ NumGets = 1

\* C3: one invocation issues at most two GET requests; when the retry fails too
\* there is no third request and the operation raises.
C3_AtMostTwoRequests ==
    /\ NumGets <= 2
    /\ (pc = "done" /\ resp2.got # "none" /\ ~RetrySucceeded)
        => (NumGets = 2 /\ result.kind = "raise")

C3_Witness ==
    /\ pc = "done" /\ resp2.got = "resp" /\ resp2.status = 500
    /\ NumGets = 2 /\ result.kind = "raise"

\* C4: a returned used_fallback is false exactly when the payload is the body of
\* the first response, whose status is below the threshold, and true exactly
\* when it is the body of the successful 01-01 retry; no payload comes from a
\* response with an error status.
C4_FallbackFlagTellsSource ==
    result.kind = "return" =>
      LET fromFirst == /\ resp1.got = "resp" /\ resp1.status < ErrorThreshold
                       /\ resp2 = NoResp /\ NumGets = 1
                       /\ result.payload.body = resp1.body
          fromRetry == /\ resp1.got = "resp" /\ resp1.status >= ErrorThreshold
                       /\ resp2.got = "resp" /\ resp2.status < ErrorThreshold
                       /\ NumGets = 2 /\ GetDatetimes[2] = ForceJan1(ts)
                       /\ result.payload.body = resp2.body
      IN  /\ (result.used_fallback = FALSE) <=> fromFirst
          /\ (result.used_fallback = TRUE) <=> fromRetry
          /\ result.payload.form = (IF ep = "chart" THEN "text" ELSE "json")

C4_Witness ==
    /\ result.kind = "return" /\ result.used_fallback
    /\ ep = "kundli" /\ resp2.status = 200 /\ resp2.body # resp1.body

(***************************************************************************)
(* Claims about _find_period_covering (checked under SpecFind)             *)
(***************************************************************************)
\* Both ends of the entry parse and start <= t <= end
InPeriod(p, t) ==
    /\ PeriodStart(p).k = "time" /\ PeriodEnd(p).k = "time"
    /\ PeriodStart(p).t <= t
    /\ t <= PeriodEnd(p).t

CoveringIndexes ==
    IF periods.kind = "list"
    THEN {i \in 1..Len(periods.items) : InPeriod(periods.items[i], now_ts)}
    ELSE {}

\* C5: _find_period_covering returns the first entry, in list order, whose
\* parsed start and end enclose t (both ends inclusive), and none when there is
\* no such entry: for an empty list, a null or non-list argument, and entries
\* whose start or end is missing or unparsable, which are skipped.
C5_FirstCoveringPeriod ==
    found.ran =>
      IF CoveringIndexes = {}
      THEN found = FoundNone
      ELSE \E i \in CoveringIndexes :
             /\ \A j \in CoveringIndexes : i <= j
             /\ found = FoundPeriod(periods.items[i])

C5_Witness ==
    /\ found.ran /\ found.some
    /\ periods.kind = "list" /\ Len(periods.items) = 2
    /\ PeriodEnd(periods.items[1]).k = "none"
    /\ found.p = periods.items[2]
    /\ PeriodEnd(found.p).t = now_ts
    /\ PeriodStart(found.p).t < now_ts

(***************************************************************************)
(* Claims about _force_jan1 (checked under SpecJan1)                       *)
(***************************************************************************)
\* s is of the form YYYY-MM-DDTHH:MM:SS+HH:MM (or with a "-" offset)
IsIsoForm(s) ==
    /\ Len(s) = 25
    /\ \A i \in 1..25 :
         CASE i \in {5, 8} -> s[i] = "-"
           [] i = 11 -> s[i] = "T"
           [] i \in {14, 17, 23} -> s[i] = ":"
           [] i = 20 -> s[i] \in {"+", "-"}
           [] OTHER -> s[i] \in Digits

\* C9: _force_jan1 keeps year, time of day and offset of a timestamp of the
\* form YYYY-MM-DDTHH:MM:SS+HH:MM and puts 01-01 for month and day; it is
\* idempotent; any input not of that form is returned unchanged.
C9_ForceJan1Contract ==
    jan_applied >= 1 =>
      /\ IsIsoForm(jan_prev) => IsJan1Of(jan_text, jan_prev)
      /\ ~IsIsoForm(jan_prev) => jan_text = jan_prev
      /\ jan_applied >= 2 => jan_text = jan_prev
      /\ jan_prev = DefaultBirthIso =>
           jan_text = Iso(Year2001, Chars2("0", "1"), Chars2("0", "1"), Hms060600, OffPlus0530)

(***************************************************************************)
(* Claims about the normalisers (checked under SpecFlatten)                *)
(***************************************************************************)
Known(v) == v.k # "null"

\* Row a may stand before row b: by house number ascending, a missing house
\* number behind every known one, then by the planet name as a string
InOrder(a, b) ==
    CASE Known(a.House_No) /\ Known(b.House_No) ->
            \/ a.House_No.n < b.House_No.n
            \/ a.House_No.n = b.House_No.n /\ ~TextLess(StrOf(b.Planet), StrOf(a.Planet))
      [] Known(a.House_No) /\ ~Known(b.House_No) -> TRUE
      [] ~Known(a.House_No) /\ Known(b.House_No) -> FALSE
      [] OTHER -> ~TextLess(StrOf(b.Planet), StrOf(a.Planet))

RowsInOrder ==
    \A i \in 1..Len(rows.rows) : \A j \in (i + 1)..Len(rows.rows) :
        InOrder(rows.rows[i], rows.rows[j])

PlanetRowsDone == rows.done /\ resp_json.fn \in {"divisional", "kundli_planets"}

\* How many planets the response holds
RECURSIVE PlanetCount(_)
PlanetCount(houses) ==
    IF houses = <<>> THEN 0
    ELSE Len(Head(houses).planet_positions) + PlanetCount(Tail(houses))

AllRowsThere ==
    Len(rows.rows) = (IF resp_json.fn = "divisional" THEN PlanetCount(resp_json.items)
                      ELSE Len(resp_json.items))

\* C6 as stated: the rows are ordered by house number, then planet name, and a
\* row without house number stands behind every row with one, whatever integer
\* the known house numbers are.
C6_MissingHouseLastForAnyNumber ==
    PlanetRowsDone => RowsInOrder

\* C6 amended: the same, for known house numbers below 99, the number the sort
\* key puts in place of a missing one.
C6_MissingHouseLastBelow99 ==
    (PlanetRowsDone /\ \A i \in 1..Len(rows.rows) :
        Known(rows.rows[i].House_No) => rows.rows[i].House_No.n < MissingHouseKey)
    => (RowsInOrder /\ AllRowsThere)

C6_Witness ==
    /\ PlanetRowsDone /\ resp_json.fn = "kundli_planets"
    /\ Len(resp_json.items) = 2 /\ Len(rows.rows) = 2
    /\ ~Known(resp_json.items[1].house_number)
    /\ resp_json.items[2].house_number = JInt(2)
    /\ rows.rows[1].House_No = JInt(2)
    /\ ~Known(rows.rows[2].House_No)

\* The one planet element of a response that holds exactly one
OnePlanet ==
    IF resp_json.fn = "divisional"
    THEN resp_json.items[1].planet_positions[1]
    ELSE resp_json.items[1]

OnePlanetFlattened ==
    /\ PlanetRowsDone
    /\ Len(rows.rows) = 1
    /\ Len(resp_json.items) = 1

\* Retro from retro, then is_retro, then motion = "retrograde"; unknown when
\* none of the three keys is there
RetroExpected(p) ==
    IF Known(p.retro) THEN JBool(Truthy(p.retro))
    ELSE IF Known(p.is_retro) THEN JBool(Truthy(p.is_retro))
    ELSE IF Known(p.motion) THEN JBool(p.motion = JStr("retrograde"))
    ELSE JNull

\* C7: Retro is resolved in priority order from retro, is_retro and the
\* equality of motion with "retrograde"; with none of the three keys on the
\* element, Retro is unknown (null), not false.
C7_RetroUnknownWithoutKeys ==
    OnePlanetFlattened => rows.rows[1].Retro = RetroExpected(OnePlanet)

OnlyEmptyElements ==
    /\ rows.done
    /\ resp_json.fn \in {"kundli_planets", "kundli_houses"}
    /\ resp_json.items # <<>>
    /\ \A i \in 1..Len(resp_json.items) :
         resp_json.items[i] = (IF resp_json.fn = "kundli_planets"
                               THEN EmptyPlanetEntry ELSE EmptyKundliHouse)

AllNullPlanetRow ==
    [House_No |-> JNull, Planet |-> JNull, Planet_Vedic |-> JNull, Rasi |-> JNull,
     Rasi_Lord |-> JNull, Nakshatra |-> JNull, Nakshatra_Lord |-> JNull, Pada |-> JNull,
     Degree |-> JNull, Retro |-> JNull]

AllNullHouseRow == [House_No |-> JNull, House |-> JNull, Rasi |-> JNull, Degree |-> JNull]

\* C8 as stated: in flatten_kundli_planets and flatten_kundli_houses an element
\* without any recognised key gives one row whose every field is null.
C8_EmptyElementGivesAllNullRow ==
    OnlyEmptyElements =>
      /\ Len(rows.rows) = Len(resp_json.items)
      /\ \A i \in 1..Len(rows.rows) :
           rows.rows[i] = (IF resp_json.fn = "kundli_planets"
                           THEN AllNullPlanetRow ELSE AllNullHouseRow)

(***************************************************************************)
(* Claims about the session state (checked under SpecApp)                  *)
(***************************************************************************)
\* The handler is through: the render step is next or has run
HandlerThrough == apc \in {"render", "idle"}

Complete(res) ==
    /\ res.set
    /\ res.address # <<>>
    /\ res.chart.payload.form = "text"
    /\ \A e \in {"divisional", "kundli", "dasha"} :
         res[e].payload.form = "json" /\ res[e].payload.body.kind = "object"

\* C10: after any sequence of submissions the session state is that of the
\* latest one: after a failure at any step results is null and errors holds one
\* message, which the render step shows exactly once; after a success results
\* holds the complete aggregate and errors is null; the two are never both set
\* and no partly filled result is stored or shown.
C10_SessionReflectsLatestSubmission ==
    /\ HandlerThrough => ~(results.set /\ errors.set)
    /\ (HandlerThrough /\ outcome = "failed") =>
          (results = NoResults /\ errors.set /\ errors.exc # "None")
    /\ (apc = "idle" /\ outcome = "failed") =>
          display = <<Shown("error", errors, NoResults)>>
    /\ (HandlerThrough /\ outcome = "succeeded") =>
          (Complete(results) /\ results.address = Strip(pob) /\ errors = NoExc)
    /\ (apc = "idle" /\ outcome = "succeeded") =>
          display = <<Shown("results", NoExc, results)>>
    /\ results.set => Complete(results)
    /\ \A i \in 1..Len(display) : display[i].kind = "results" => Complete(display[i].res)

C10_Witness ==
    /\ apc = "idle" /\ submissions = 2
    /\ outcome = "failed" /\ errors.exc = "HTTPError"
    /\ ~results.set
    /\ display = <<Shown("error", errors, NoResults)>>

(***************************************************************************)
(* Claims about the token cache (checked under SpecToken)                  *)
(***************************************************************************)
\* The cache holds a token and the time t is before its stored expiry
HoldsTokenBefore(c, t) ==
    /\ c.access_token # "None"
    /\ c.has_expiry
    /\ t < c.expires_at

\* c is what an exchange at time t stores: the token of a reply and
\* t + expires_in - 60 (expires_in is 3600 when the reply has none)
StoredByExchangeAt(c, t) ==
    \E o \in TokenReplies :
       /\ c.access_token = o.access_token
       /\ c.has_expiry
       /\ c.expires_at = t + (IF o.has_expires_in THEN o.expires_in ELSE 3600) - 60

\* C11: _get_token makes a client-credentials exchange exactly when the cache
\* holds no token or the time is not before the stored expiry, the stored
\* expiry being fetch time + expires_in - 60 s; otherwise it returns the cached
\* token without a request and leaves the cache alone. After a successful
\* exchange the cache holds the new token and its expiry before the endpoint
\* request is sent.
C11_ExchangeExactlyWhenStale ==
    [][/\ pc = "token" =>
            LET exchanged == calls' = Append(calls, TokenCall) IN
              /\ exchanged \/ calls' = calls
              /\ exchanged <=> ~HoldsTokenBefore(cache, now)
              /\ ~exchanged => (cache' = cache /\ pc' = "first")
              /\ (exchanged /\ pc' = "first") => StoredByExchangeAt(cache', now)
       /\ (pc = "first" /\ calls = <<TokenCall>>) =>
            /\ StoredByExchangeAt(cache, now)
            /\ calls' = <<TokenCall, GetCall(ep, ts)>>
      ]_vars

\* The token fetched at 0 with expires_in = 120 is still used at 59
C11_Witness ==
    /\ pc = "first" /\ calls = <<>>
    /\ now = 59
    /\ cache = [access_token |-> "tokB", has_expiry |-> TRUE, expires_at |-> 60]

\* C12: when the token exchange fails the operation raises at once: one token
\* request was made, no endpoint GET is issued, and the token cache is as it
\* was before.
C12_TokenFailureLeavesCache ==
    [][(pc = "token" /\ pc' = "done") =>
          /\ calls' = <<TokenCall>>
          /\ result'.kind = "raise"
          /\ cache' = cache
      ]_vars

(***************************************************************************)
(* Claims about the outbound calls of a submission (checked under SpecApp) *)
(***************************************************************************)
CredentialsMissing == ~credentials.id \/ ~credentials.secret

\* C13: with the client id or the client secret missing, constructing the
\* client raises a configuration error, and a submission ends in the error
\* state without any outbound call: no geocoding request, no token exchange, no
\* endpoint request.
C13_MissingCredentialsNoCalls ==
    CredentialsMissing =>
      /\ calls = <<>>
      /\ apc \notin {"geocode", "endpoint", "store", "store errors"}
      /\ outcome \in {"none", "failed"}
      /\ results = NoResults
      /\ (apc = "except" /\ Strip(pob) # <<>>) =>
            exc = Exc("ValueError: Missing PROKERALA_CLIENT_ID or PROKERALA_CLIENT_SECRET", 0)
      /\ (HandlerThrough /\ submissions > 0) => (outcome = "failed" /\ errors.set)
      /\ (apc = "idle" /\ submissions > 0) => display = <<Shown("error", errors, NoResults)>>

C13_Witness ==
    /\ credentials = [id |-> TRUE, secret |-> FALSE]
    /\ apc = "idle" /\ submissions = 1
    /\ Strip(pob) # <<>>
    /\ errors = Exc("ValueError: Missing PROKERALA_CLIENT_ID or PROKERALA_CLIENT_SECRET", 0)
    /\ calls = <<>>

EpRank(e) ==
    CASE e = "chart" -> 1 [] e = "divisional" -> 2 [] e = "kundli" -> 3 [] e = "dasha" -> 4
      [] OTHER -> 0

\* The calls of one submission come one after the other in the order of the
\* script: the geocoding request first, then for each endpoint operation in
\* turn at most one token exchange, its request and at most one retry
CallsInScriptOrder ==
    /\ \A i \in 1..Len(calls) : (calls[i].kind = "geocode") <=> (i = 1)
    /\ \A i \in 1..Len(calls) : \A j \in (i + 1)..Len(calls) :
         (calls[i].kind = "get" /\ calls[j].kind = "get") =>
            EpRank(calls[i].ep) <= EpRank(calls[j].ep)
    /\ \A e \in Endpoints :
         Cardinality({i \in 1..Len(calls) : calls[i].kind = "get" /\ calls[i].ep = e}) <= 2
    /\ \A i \in 1..Len(calls) :
         (calls[i].kind = "token" /\ i < Len(calls)) =>
            /\ calls[i + 1].kind = "get"
            /\ \A j \in 1..(i - 1) : calls[j].kind = "get" => calls[j].ep # calls[i + 1].ep

\* A call that made its step raise is the last call of the submission
FailedCallIsLast ==
    /\ (apc \in {"except", "except errors"} /\ calls # <<>>) =>
         LET last == calls[Len(calls)] IN
           CASE exc.exc \in {"TokenError", "OverflowError"} -> last.kind = "token"
             [] exc.exc \in {"ConnectionError", "HTTPError", "JSONDecodeError"} ->
                    last.kind = "get" /\ last.ep = ep
             [] exc.exc = "AttributeError: 'list' object has no attribute 'get'" ->
                    last.kind = "get" /\ last.ep = ep
             [] OTHER -> calls = <<GeocodeCall>>
    /\ (outcome = "failed" /\ apc \in {"except", "except errors", "render", "idle"}) =>
         \A i \in 1..Len(calls) : EpRank(calls[i].ep) <= EpRank(ep)

\* C14 as stated: a submission makes at most eight outbound calls, counting
\* the geocoding request, the token exchanges and the endpoint requests with
\* their retries; the calls are sequential and a failing call prevents all later
\* ones.
C14_AtMostEightCalls ==
    /\ Len(calls) <= 8
    /\ CallsInScriptOrder
    /\ FailedCallIsLast

\* C14 amended: at most thirteen: one geocoding request and, for each of the
\* four endpoint operations, at most one token exchange, one request and one
\* retry.
C14_AtMostThirteenCalls ==
    /\ Len(calls) <= 13
    /\ Cardinality({i \in 1..Len(calls) : calls[i].kind = "token"}) <= 4
    /\ Cardinality({i \in 1..Len(calls) : calls[i].kind = "get"}) <= 8
    /\ CallsInScriptOrder
    /\ FailedCallIsLast

C14_Witness ==
    /\ Len(calls) = 13
    /\ apc = "idle" /\ outcome = "succeeded"
    /\ results.dasha.used_fallback

(***************************************************************************)
(* Claims about current_dasha_chain (checked under SpecDasha)              *)
(***************************************************************************)
\* The first element of items that covers t is there and is x
IsFirstCovering(x, items, t) ==
    \E i \in 1..Len(items) :
       /\ items[i] = x
       /\ InPeriod(items[i], t)
       /\ \A j \in 1..(i - 1) : ~InPeriod(items[j], t)

\* tier is what the search of the children gives: their first covering
\* element, or none when no child covers t; shown are the children
TierResolved(tier, children, shown, t) ==
    /\ shown = children
    /\ IF \E i \in 1..Len(children) : InPeriod(children[i], t)
       THEN tier.some /\ IsFirstCovering(tier.p, children, t)
       ELSE tier = FoundNone

\* The children of a returned period under key: none when the key is absent,
\* null or an empty list
ChildList(parent, key) ==
    IF parent.some /\ parent.p[key].kind = "list" THEN parent.p[key].items ELSE <<>>

\* C15: the chain is downward closed: the Antardasha is none or the first
\* covering element of the returned Mahadasha's children, the Pratyantardasha
\* none or the first covering element of the returned Antardasha's children, so
\* PD present implies AD present implies MD present; a tier whose parent is
\* absent or has no children is none with an empty child list.
C15_ChainDownwardClosed ==
    chain.ran =>
      /\ chain.pd.some => chain.ad.some
      /\ chain.ad.some => chain.md.some
      /\ TierResolved(chain.ad, ChildList(chain.md, "antardasha"), chain.all_ad, now_ts)
      /\ TierResolved(chain.pd, ChildList(chain.ad, "pratyantardasha"), chain.all_pd, now_ts)
      /\ (~chain.md.some \/ ChildList(chain.md, "antardasha") = <<>>) =>
            (chain.ad = FoundNone /\ chain.all_ad = <<>>)
      /\ (~chain.ad.some \/ ChildList(chain.ad, "pratyantardasha") = <<>>) =>
            (chain.pd = FoundNone /\ chain.all_pd = <<>>)

\* MD Ketu over every instant, AD Venus too, without Pratyantardasha
C15_Witness ==
    /\ chain.ran /\ now_ts = 1
    /\ chain.md.some /\ chain.md.p.name = "Ketu"
    /\ chain.ad.some /\ chain.ad.p.name = "Venus"
    /\ chain.ad.p.pratyantardasha = NoList
    /\ chain.pd = FoundNone /\ chain.all_pd = <<>>
    /\ Len(chain.all_ad) = 2

(***************************************************************************)
(* Claims about the alternative keys (checked under SpecFlatten)           *)
(***************************************************************************)
\* The first of the candidates that is there and is not null
FirstNonNull2(a, b) == IF Known(a) THEN a ELSE b
FirstNonNull3(a, b, c) == FirstNonNull2(a, FirstNonNull2(b, c))

OneHouseFlattened ==
    /\ rows.done /\ resp_json.fn = "kundli_houses"
    /\ Len(rows.rows) = 1 /\ Len(resp_json.items) = 1

\* C16: a field with several candidate keys takes the value of the first
\* candidate that is present and not null, also when that value is 0, the
\* empty string or false: the degree from degree, longitude, position.degree,
\* the pada from nakshatra.pada, pada, the house number from house.number,
\* number.
C16_FirstNonNullCandidateWins ==
    /\ OnePlanetFlattened =>
         /\ rows.rows[1].Degree =
               FirstNonNull3(OnePlanet.degree, OnePlanet.longitude, OnePlanet.position_degree)
         /\ rows.rows[1].Pada = FirstNonNull2(OnePlanet.nak_pada, OnePlanet.pada)
    /\ OneHouseFlattened =>
         LET h == resp_json.items[1] IN
           rows.rows[1].House_No =
               (IF h.house = "object" THEN FirstNonNull2(h.house_number, h.number) ELSE h.number)

(***************************************************************************)
(* Claims about the error after a failed retry (checked under SpecClient)  *)
(***************************************************************************)
\* C17: when the sandbox-date retry gives no payload (its response has an
\* error status or a body that cannot be decoded), the error the operation
\* raises carries the status code, the reason and the body of the first
\* response, not those of the retry response.
C17_ErrorReportsFirstResponse ==
    (pc = "done" /\ resp2.got = "resp" /\ ~RetrySucceeded) =>
      /\ result.kind = "raise"
      /\ result.exc = "HTTPError"
      /\ result.status = resp1.status
      /\ result.reason = ReasonOf(resp1.status)
      /\ result.detail.body = resp1.body
      /\ result.detail.form = "json"

C17_Witness ==
    /\ pc = "done" /\ ep = "dasha"
    /\ resp1 = Resp(400, ObjectBody("list", <<E1004>>))
    /\ resp2 = Resp(200, TextBody)
    /\ result.kind = "raise" /\ result.status = 400
    /\ result.detail.body = resp1.body

====
